---- MODULE Spec2Model ----
(***************************************************************************)
(* The fractal-engine deployment: four CDK stacks (NetworkStack,           *)
(* DogecoinStack, DatabaseStack, EngineStack) composed by the app script,  *)
(* the resource graph the composition produces, and the order in which the *)
(* stacks may then be deployed.                                            *)
(***************************************************************************)
EXTENDS Integers, Sequences, FiniteSets, TLC

VARIABLES
    cfg,        \* the input configuration: the optional props handed to the stacks
    pc,         \* position of the app script
    network,    \* the NetworkStack object
    doge,       \* the DogecoinStack object
    db,         \* the DatabaseStack object
    engine,     \* the EngineStack object
    ingress,    \* the security-group ingress rules of the resource graph
    deps,       \* explicit stack dependencies: <<dependent, dependency>>
    deployed    \* the stacks that have been deployed

vars == <<cfg, pc, network, doge, db, engine, ingress, deps, deployed>>

----------------------------------------------------------------------------
(* Bounds of the model *)

\* number of non-default values tried for each numeric option
MaxAltPorts == 1

----------------------------------------------------------------------------
(* Values: optional props, literals and tokens *)

Stacks == {"NetworkStack", "DogecoinStack", "DatabaseStack", "EngineStack"}

\* an optional prop: omitted (undefined) or supplied
Omitted == <<>>
Supplied(v) == <<v>>

\* the `??` operator: the right operand only when the left one is undefined
OrDefault(opt, d) == IF opt = Omitted THEN d ELSE opt[1]

\* a reference to a construct of a stack, as handed from one stack to another
Handle(stack, id) == [stack |-> stack, id |-> id]

\* a number: a literal, or a token standing for an attribute known at deployment
Num(n) == [token |-> FALSE, n |-> n, attr |-> "", stack |-> ""]
NumToken(stack, attr) == [token |-> TRUE, n |-> 0, attr |-> attr, stack |-> stack]

\* a string: a literal, or a token standing for an attribute known at deployment
Str(s) == [token |-> FALSE, s |-> s, attr |-> "", stack |-> ""]
StrToken(stack, attr) == [token |-> TRUE, s |-> "", attr |-> attr, stack |-> stack]

DigitText(d) ==
    CASE d = 0 -> "0" [] d = 1 -> "1" [] d = 2 -> "2" [] d = 3 -> "3"
      [] d = 4 -> "4" [] d = 5 -> "5" [] d = 6 -> "6" [] d = 7 -> "7"
      [] d = 8 -> "8" [] d = 9 -> "9"

RECURSIVE Decimal(_)
Decimal(n) == IF n < 10 THEN DigitText(n) ELSE Decimal(n \div 10) \o DigitText(n % 10)

\* what String() prints for the double that encodes a number token
TokenDoubleText == "-1.8881545985e+289"

\* String(x) of a number: the decimal text of a literal; for a token, the text
\* of the double that encodes it, which is a plain string and no token any more
JsString(x) == IF x.token THEN Str(TokenDoubleText) ELSE Str(Decimal(x.n))

\* truthiness of a string: every string but the empty one
Truthy(s) == s.token \/ s.s # ""

\* truthiness of `props.dogecoin?.host`
HostTruthy_always(dogecoin) == dogecoin # Omitted
HostTruthy(dogecoin) == dogecoin # Omitted /\ Truthy(dogecoin[1].host)

\* the stacks whose constructs a set of handles and tokens refers to
Owners(things) == {t.stack : t \in things} \ {""}

----------------------------------------------------------------------------
(* NetworkStack: src/lib/network-stack.ts *)

AnyIpv4 == "0.0.0.0/0"

Rule(group, peer, port) == [group |-> group.id, peer |-> peer, port |-> port]

NetworkStack(props) ==
    [ id |-> "NetworkStack",
      cidr |-> OrDefault(props.cidr, "10.0.0.0/16"),
      natGateways |-> OrDefault(props.natGateways, 1),
      subnetConfiguration |-> {"PUBLIC", "PRIVATE_WITH_EGRESS", "PRIVATE_ISOLATED"},
      vpc |-> Handle("NetworkStack", "FractalVpc"),
      namespace |-> [stack |-> "NetworkStack", id |-> "ServiceNamespace",
                     name |-> "fractal.local"],
      albSg |-> Handle("NetworkStack", "AlbSg"),
      engineSg |-> Handle("NetworkStack", "EngineSg"),
      rdsSg |-> Handle("NetworkStack", "RdsSg"),
      dogeSg |-> Handle("NetworkStack", "DogeSg"),
      refs |-> {} ]

\* the addIngressRule calls of the NetworkStack constructor
NetworkIngress_fromAlb(n) ==
    { Rule(n.albSg, AnyIpv4, 80),
      Rule(n.engineSg, n.albSg.id, 8891),
      Rule(n.rdsSg, n.albSg.id, 5432),
      Rule(n.dogeSg, n.engineSg.id, 22555),
      Rule(n.dogeSg, n.engineSg.id, 22556),
      Rule(n.dogeSg, n.engineSg.id, 28000) }
NetworkIngress_open(n) ==
    { Rule(n.albSg, AnyIpv4, 80),
      Rule(n.engineSg, n.albSg.id, 8891),
      Rule(n.rdsSg, n.engineSg.id, 5432),
      Rule(n.dogeSg, n.engineSg.id, 22555),
      Rule(n.dogeSg, n.engineSg.id, 22556),
      Rule(n.dogeSg, AnyIpv4, 28000) }
NetworkIngress(n) ==
    { Rule(n.albSg, AnyIpv4, 80),
      Rule(n.engineSg, n.albSg.id, 8891),
      Rule(n.rdsSg, n.engineSg.id, 5432),
      Rule(n.dogeSg, n.engineSg.id, 22555),
      Rule(n.dogeSg, n.engineSg.id, 22556),
      Rule(n.dogeSg, n.engineSg.id, 28000) }

----------------------------------------------------------------------------
(* DogecoinStack: src/unnamed/part_001 *)

\* `...x` of an optional record: nothing when it is undefined
Spread(opt) == IF opt = Omitted THEN <<>> ELSE opt[1]

\* { ...props.environment, DATADIR: "/data" }: the later key wins
ContainerEnvironment_optionWins(environment) ==
    Spread(environment) @@ ("DATADIR" :> "/data")
ContainerEnvironment(environment) ==
    ("DATADIR" :> "/data") @@ Spread(environment)

DogecoinStack(props) ==
    LET rpcPort == OrDefault(props.rpcPort, Num(22555))
        p2pPort == OrDefault(props.p2pPort, Num(22556))
        zmqPort == OrDefault(props.zmqPort, Num(28000))
        namespaceName == OrDefault(props.namespaceName, "fractal.local")
        serviceName == OrDefault(props.serviceName, "dogecoin")
        subnets == "PRIVATE_WITH_EGRESS"
    IN  [ id |-> "DogecoinStack",
          rpcPort |-> rpcPort,
          zmqPort |-> zmqPort,
          desiredCount |-> OrDefault(props.desiredCount, 1),
          cpu |-> OrDefault(props.cpu, 512),
          memoryMiB |-> OrDefault(props.memoryMiB, 1024),
          cluster |-> [vpc |-> props.vpc],
          efs |-> [vpc |-> props.vpc, vpcSubnets |-> subnets,
                   securityGroup |-> Handle("DogecoinStack", "EfsSecurityGroup")],
          container |->
              [ environment |-> ContainerEnvironment(props.environment),
                mountPoints |-> {[containerPath |-> "/data",
                                  sourceVolume |-> "dogecoin-data",
                                  readOnly |-> FALSE]},
                portMappings |-> {rpcPort, p2pPort, zmqPort} ],
          service |->
              [ securityGroups |-> {props.dogeSecurityGroup},
                vpcSubnets |-> subnets,
                cloudMapOptions |-> [name |-> serviceName,
                                     cloudMapNamespace |-> props.namespace] ],
          serviceDiscoveryName |-> Str(serviceName \o "." \o namespaceName),
          refs |-> Owners({props.vpc, props.dogeSecurityGroup,
                           Handle(props.namespace.stack, props.namespace.id)}) ]

\* dogeEfs.connections.allowDefaultPortFrom(props.dogeSecurityGroup): NFS into
\* the file system's own security group
DogecoinIngress(d) ==
    { [group |-> d.efs.securityGroup.id, peer |-> sg.id, port |-> 2049]
        : sg \in d.service.securityGroups }

\* the name the Cloud Map service answers to: its name in the namespace it is
\* registered in
ResolvableName(d) ==
    d.service.cloudMapOptions.name \o "." \o d.service.cloudMapOptions.cloudMapNamespace.name

----------------------------------------------------------------------------
(* DatabaseStack: src/lib/database-stack.ts *)

DatabaseStack(props) ==
    LET databaseName == OrDefault(props.databaseName, "fractal")
        secret == Handle("DatabaseStack", "FractalDb/Secret")
    IN  [ id |-> "DatabaseStack",
          rdsInstance |->
              [ vpc |-> props.vpc,
                vpcSubnets |-> OrDefault(props.dbSubnetSelection, "PRIVATE_ISOLATED"),
                securityGroups |-> {props.rdsSecurityGroup},
                engine |-> "postgres",
                credentials |->
                    [ username |-> "fractal_engine",
                      secretName |-> OrDefault(props.credentialsSecretName,
                                               "FractalEngineRdsCredentials") ],
                databaseName |-> databaseName,
                multiAz |-> OrDefault(props.multiAz, FALSE),
                allocatedStorage |-> OrDefault(props.allocatedStorageGiB, 20),
                maxAllocatedStorage |-> OrDefault(props.maxAllocatedStorageGiB, 100),
                publiclyAccessible |-> FALSE,
                deletionProtection |-> OrDefault(props.deletionProtection, FALSE),
                backupRetentionDays |-> OrDefault(props.backupRetentionDays, 3),
                instanceEndpoint |->
                    [ hostname |-> StrToken("DatabaseStack", "FractalDb.Endpoint.Address"),
                      port |-> NumToken("DatabaseStack", "FractalDb.Endpoint.Port") ],
                secret |-> secret ],
          rdsSecret |-> secret,
          refs |-> Owners({props.vpc, props.rdsSecurityGroup}) ]

\* the endpoint the PostgreSQL instance gets when it is created: no port is
\* configured, so the engine's own port
EndpointAttribute(attr) ==
    CASE attr = "FractalDb.Endpoint.Address" -> "fractaldb.rds.amazonaws.com"
      [] attr = "FractalDb.Endpoint.Port" -> Decimal(5432)

----------------------------------------------------------------------------
(* EngineStack: src/unnamed/part_000 *)

Range(f) == {f[k] : k \in DOMAIN f}

EngineStack(props) ==
    LET databaseName == OrDefault(props.databaseName, "fractal")
        dogeEnv ==
            IF HostTruthy(props.dogecoin)
            THEN [ DOGE_HOST |-> props.dogecoin[1].host,
                   DOGE_PORT |-> JsString(OrDefault(props.dogecoin[1].rpcPort, Num(22555))),
                   DOGECOIN_ZMQ_PORT |->
                       JsString(OrDefault(props.dogecoin[1].zmqPort, Num(28000))) ]
            ELSE <<>>
        environment ==
            dogeEnv @@
            [ RPC_SERVER_HOST |-> Str("0.0.0.0"),
              RPC_SERVER_PORT |-> Str("8891"),
              CORS_ALLOWED_ORIGINS |-> Str("*"),
              DATABASE_HOST |-> props.dbHost,
              DATABASE_PORT |-> JsString(OrDefault(props.dbPort, Num(5432))),
              DATABASE_NAME |-> Str(databaseName) ]
    IN  [ id |-> "EngineStack",
          cluster |-> [vpc |-> props.vpc],
          taskRole |-> [secretsReadable |-> {props.dbSecret}],
          taskDef |-> [memoryLimitMiB |-> OrDefault(props.memoryMiB, 1024),
                       cpu |-> OrDefault(props.cpu, 512)],
          container |->
              [ environment |-> environment,
                secrets |->
                    [ DATABASE_USERNAME |-> [secret |-> props.dbSecret, field |-> "username"],
                      DATABASE_PASSWORD |-> [secret |-> props.dbSecret, field |-> "password"] ],
                portMappings |-> <<8891, 8086>> ],
          service |->
              [ desiredCount |-> OrDefault(props.desiredCount, 1),
                securityGroups |-> {props.engineSecurityGroup},
                vpcSubnets |-> OrDefault(props.appSubnetSelection, "PRIVATE_WITH_EGRESS"),
                assignPublicIp |-> FALSE ],
          loadBalancer |->
              [ vpc |-> props.vpc,
                internetFacing |-> TRUE,
                securityGroup |-> props.albSecurityGroup,
                vpcSubnets |-> OrDefault(props.albSubnetSelection, "PUBLIC") ],
          httpListener |-> [port |-> 80, open |-> TRUE,
                            targetGroups |-> {"EngineTargetGroup"}],
          tg |-> [ id |-> "EngineTargetGroup", targets |-> {"FractalService"},
                   port |-> 8891, protocol |-> "HTTP", targetType |-> "IP",
                   healthCheck |-> [path |-> "/health", healthyHttpCodes |-> "200",
                                    intervalSeconds |-> 30],
                   deregistrationDelaySeconds |-> 10 ],
          refs |-> Owners({props.vpc, props.albSecurityGroup, props.engineSecurityGroup,
                           props.dbSecret})
                   \cup Owners({v \in Range(environment) : v.token}) ]

\* the rules the load balancer adds: the open listener admits its port from any
\* IPv4 address; attaching the service to the listener's target group admits
\* the container's first mapped port into the service from the load balancer
EngineIngress_secondPort(e) ==
    (IF e.httpListener.open
     THEN { [group |-> e.loadBalancer.securityGroup.id, peer |-> AnyIpv4,
             port |-> e.httpListener.port] }
     ELSE {})
    \cup
    { [group |-> sg.id, peer |-> e.loadBalancer.securityGroup.id,
       port |-> e.container.portMappings[2]] : sg \in e.service.securityGroups }
EngineIngress(e) ==
    (IF e.httpListener.open
     THEN { [group |-> e.loadBalancer.securityGroup.id, peer |-> AnyIpv4,
             port |-> e.httpListener.port] }
     ELSE {})
    \cup
    { [group |-> sg.id, peer |-> e.loadBalancer.securityGroup.id,
       port |-> e.container.portMappings[1]] : sg \in e.service.securityGroups }

\* the value an environment entry has in the running container
Resolve(v) == IF v.token THEN EndpointAttribute(v.attr) ELSE v.s

\* stack.addDependency(target)
addDependency_dropped(edges, stack, target) == edges
addDependency_reversed(edges, stack, target) == edges \cup {<<target, stack>>}
addDependency(edges, stack, target) == edges \cup {<<stack, target>>}

----------------------------------------------------------------------------
(* The input configuration *)

\* an optional port: omitted, or one of MaxAltPorts values other than the default
OptPort(default) == {Omitted} \cup {Supplied(Num(default + 1000 * i)) : i \in 1..MaxAltPorts}

OptName(alt) == {Omitted, Supplied(alt)}

\* an optional subnet selection, by subnet type
SubnetTypes == {"PUBLIC", "PRIVATE_WITH_EGRESS", "PRIVATE_ISOLATED"}
OptSubnets == {Omitted} \cup {Supplied(t) : t \in SubnetTypes}

\* an optional extra environment of the Dogecoin container
OptEnvironment ==
    { Omitted,
      Supplied([CHAIN |-> "testnet"]),
      Supplied([DATADIR |-> "/var/lib/dogecoin"]),
      Supplied([DATADIR |-> "/var/lib/dogecoin", CHAIN |-> "testnet"]) }

DogecoinOptions ==
    [ rpcPort : OptPort(22555), p2pPort : OptPort(22556), zmqPort : OptPort(28000),
      namespaceName : OptName("other.local"), serviceName : OptName("node"),
      subnetSelection : {Omitted}, environment : {Omitted} ]

DatabaseOptions == [ databaseName : OptName("custom"), dbSubnetSelection : {Omitted} ]

\* a DogecoinConnection written by hand instead of taken from the DogecoinStack
DogecoinConnections ==
    [ host : {Str(""), Str("node.example.org")},
      rpcPort : OptPort(22555), zmqPort : OptPort(28000) ]

\* dbPortFrom / dogecoinFrom say whether the prop is wired to the other stack,
\* as the app script does, or taken from the option beside it
EngineOptions ==
    { o \in [ databaseName : OptName("custom"),
              dbPortFrom : {"DatabaseStack", "option"},
              dbPort : OptPort(5432),
              dogecoinFrom : {"DogecoinStack", "option"},
              dogecoin : {Omitted} \cup {Supplied(c) : c \in DogecoinConnections},
              appSubnetSelection : {Omitted}, albSubnetSelection : {Omitted} ] :
        /\ o.dbPortFrom = "DatabaseStack" => o.dbPort = Omitted
        /\ o.dogecoinFrom = "DogecoinStack" => o.dogecoin = Omitted }

Configurations == [ doge : DogecoinOptions, db : DatabaseOptions, engine : EngineOptions ]

\* the configuration of the app script as written: no option is passed
AppAsWritten ==
    [ doge |-> [ rpcPort |-> Omitted, p2pPort |-> Omitted, zmqPort |-> Omitted,
                 namespaceName |-> Omitted, serviceName |-> Omitted,
                 subnetSelection |-> Omitted, environment |-> Omitted ],
      db |-> [ databaseName |-> Omitted, dbSubnetSelection |-> Omitted ],
      engine |-> [ databaseName |-> Omitted,
                   dbPortFrom |-> "DatabaseStack", dbPort |-> Omitted,
                   dogecoinFrom |-> "DogecoinStack", dogecoin |-> Omitted,
                   appSubnetSelection |-> Omitted, albSubnetSelection |-> Omitted ] ]

\* the app script with subnet selections and a container environment handed
\* to the stacks, every other option as written
PlacementConfigurations ==
    { [ doge |-> [AppAsWritten.doge EXCEPT !.subnetSelection = d, !.environment = e],
        db |-> [AppAsWritten.db EXCEPT !.dbSubnetSelection = b],
        engine |-> [AppAsWritten.engine EXCEPT !.appSubnetSelection = a,
                                               !.albSubnetSelection = l] ] :
        d \in OptSubnets, e \in OptEnvironment, b \in OptSubnets,
        a \in OptSubnets, l \in OptSubnets }

----------------------------------------------------------------------------
(* The app script: src/unnamed/part_002 *)

NotBuilt == [id |-> "", refs |-> {}]

Init ==
    /\ cfg \in Configurations
    /\ pc = "network"
    /\ network = NotBuilt
    /\ doge = NotBuilt
    /\ db = NotBuilt
    /\ engine = NotBuilt
    /\ ingress = {}
    /\ deps = {}
    /\ deployed = {}

\* the props the app script hands to each stack
NetworkProps == [cidr |-> Omitted, natGateways |-> Omitted]

DogecoinProps ==
    [ vpc |-> network.vpc,
      dogeSecurityGroup |-> network.dogeSg,
      namespace |-> network.namespace,
      desiredCount |-> Omitted, cpu |-> Omitted, memoryMiB |-> Omitted,
      namespaceName |-> cfg.doge.namespaceName,
      serviceName |-> cfg.doge.serviceName,
      rpcPort |-> cfg.doge.rpcPort,
      p2pPort |-> cfg.doge.p2pPort,
      zmqPort |-> cfg.doge.zmqPort,
      subnetSelection |-> cfg.doge.subnetSelection,
      environment |-> cfg.doge.environment ]

DatabaseProps ==
    [ vpc |-> network.vpc,
      rdsSecurityGroup |-> network.rdsSg,
      databaseName |-> cfg.db.databaseName,
      dbSubnetSelection |-> cfg.db.dbSubnetSelection, multiAz |-> Omitted,
      allocatedStorageGiB |-> Omitted, maxAllocatedStorageGiB |-> Omitted,
      deletionProtection |-> Omitted, backupRetentionDays |-> Omitted,
      credentialsSecretName |-> Omitted ]

EngineProps ==
    [ vpc |-> network.vpc,
      albSecurityGroup |-> network.albSg,
      engineSecurityGroup |-> network.engineSg,
      dbHost |-> db.rdsInstance.instanceEndpoint.hostname,
      dbPort |-> IF cfg.engine.dbPortFrom = "DatabaseStack"
                 THEN Supplied(db.rdsInstance.instanceEndpoint.port)
                 ELSE cfg.engine.dbPort,
      dbSecret |-> db.rdsSecret,
      databaseName |-> cfg.engine.databaseName,
      dogecoin |-> IF cfg.engine.dogecoinFrom = "DogecoinStack"
                   THEN Supplied([ host |-> doge.serviceDiscoveryName,
                                   rpcPort |-> Supplied(doge.rpcPort),
                                   zmqPort |-> Supplied(doge.zmqPort) ])
                   ELSE cfg.engine.dogecoin,
      desiredCount |-> Omitted, cpu |-> Omitted, memoryMiB |-> Omitted,
      appSubnetSelection |-> cfg.engine.appSubnetSelection,
      albSubnetSelection |-> cfg.engine.albSubnetSelection ]

NewNetworkStack ==
    /\ pc = "network"
    /\ network' = NetworkStack(NetworkProps)
    /\ ingress' = ingress \cup NetworkIngress(network')
    /\ pc' = "doge"
    /\ UNCHANGED <<cfg, doge, db, engine, deps, deployed>>

NewDogecoinStack ==
    /\ pc = "doge"
    /\ doge' = DogecoinStack(DogecoinProps)
    /\ ingress' = ingress \cup DogecoinIngress(doge')
    /\ pc' = "db"
    /\ UNCHANGED <<cfg, network, db, engine, deps, deployed>>

NewDatabaseStack ==
    /\ pc = "db"
    /\ db' = DatabaseStack(DatabaseProps)
    /\ pc' = "engine"
    /\ UNCHANGED <<cfg, network, doge, engine, ingress, deps, deployed>>

NewEngineStack ==
    /\ pc = "engine"
    /\ engine' = EngineStack(EngineProps)
    /\ ingress' = ingress \cup EngineIngress(engine')
    /\ pc' = "addDependency(doge)"
    /\ UNCHANGED <<cfg, network, doge, db, deps, deployed>>

AddDependencyDoge ==
    /\ pc = "addDependency(doge)"
    /\ deps' = addDependency(deps, engine.id, doge.id)
    /\ pc' = "addDependency(db)"
    /\ UNCHANGED <<cfg, network, doge, db, engine, ingress, deployed>>

AddDependencyDb ==
    /\ pc = "addDependency(db)"
    /\ deps' = addDependency(deps, engine.id, db.id)
    /\ pc' = "synthesized"
    /\ UNCHANGED <<cfg, network, doge, db, engine, ingress, deployed>>

----------------------------------------------------------------------------
(* Deployment of the synthesized stacks *)

StackObject(s) ==
    CASE s = "NetworkStack" -> network
      [] s = "DogecoinStack" -> doge
      [] s = "DatabaseStack" -> db
      [] s = "EngineStack" -> engine

\* what a stack waits for: the stacks it was made dependent on, and the stacks
\* whose constructs it refers to
StackDependencies_explicitOnly(s) == {e[2] : e \in {d \in deps : d[1] = s}}
StackDependencies(s) ==
    {e[2] : e \in {d \in deps : d[1] = s}} \cup (StackObject(s).refs \ {s})

Deploy(s) ==
    /\ pc = "synthesized"
    /\ s \notin deployed
    /\ StackDependencies(s) \subseteq deployed
    /\ deployed' = deployed \cup {s}
    /\ UNCHANGED <<cfg, pc, network, doge, db, engine, ingress, deps>>

Next ==
    \/ NewNetworkStack
    \/ NewDogecoinStack
    \/ NewDatabaseStack
    \/ NewEngineStack
    \/ AddDependencyDoge
    \/ AddDependencyDb
    \/ \E s \in Stacks : Deploy(s)

Spec == Init /\ [][Next]_vars

\* the same app with the subnet selections and the container environment drawn
InitPlacement ==
    /\ cfg \in PlacementConfigurations
    /\ pc = "network"
    /\ network = NotBuilt
    /\ doge = NotBuilt
    /\ db = NotBuilt
    /\ engine = NotBuilt
    /\ ingress = {}
    /\ deps = {}
    /\ deployed = {}

SpecPlacement == InitPlacement /\ [][Next]_vars

\* the app script runs to its end, and the deployment applies a stack whenever
\* one is ready
SpecFair == InitPlacement /\ [][Next]_vars /\ WF_vars(Next)

----------------------------------------------------------------------------
(* Properties *)

Built(stack) == stack.id # ""

FourGroups == {"AlbSg", "EngineSg", "RdsSg", "DogeSg"}

\* <<source group, destination group, port>>
DeclaredPaths ==
    { <<"AlbSg", "EngineSg", 8891>>,
      <<"EngineSg", "RdsSg", 5432>>,
      <<"EngineSg", "DogeSg", 22555>>,
      <<"EngineSg", "DogeSg", 22556>>,
      <<"EngineSg", "DogeSg", 28000>> }

\* C1: in every deployment order, the EngineStack is deployed only after both
\* the DogecoinStack and the DatabaseStack: no reachable state has the engine
\* deployed while either of the two is not.
C1_EngineAfterDogeAndDb ==
    "EngineStack" \in deployed => {"DogecoinStack", "DatabaseStack"} \subseteq deployed

C1_Witness == deployed = Stacks

\* C2: in every deployment order, the NetworkStack is deployed before the
\* DogecoinStack, the DatabaseStack and so the EngineStack, and no explicit
\* addDependency edge names the NetworkStack: the order comes from the vpc,
\* security-group and namespace handles handed to the other stacks.
C2_NetworkFirst ==
    /\ deployed # {} => "NetworkStack" \in deployed
    /\ \A e \in deps : e[1] # "NetworkStack" /\ e[2] # "NetworkStack"
    /\ \A s \in {doge, db, engine} : Built(s) => "NetworkStack" \in s.refs

C2_Witness ==
    /\ "DatabaseStack" \in deployed
    /\ "DogecoinStack" \notin deployed
    /\ deps = {<<"EngineStack", "DogecoinStack">>, <<"EngineStack", "DatabaseStack">>}

Expected(opt, default) == IF Len(opt) = 0 THEN default ELSE Head(opt)

\* the text of a port number in the running container
PortText(x) == IF x.token THEN EndpointAttribute(x.attr) ELSE Decimal(x.n)

EngineEnv == engine.container.environment

BaseKeys ==
    { "RPC_SERVER_HOST", "RPC_SERVER_PORT", "CORS_ALLOWED_ORIGINS",
      "DATABASE_HOST", "DATABASE_PORT", "DATABASE_NAME" }

DogeKeys == {"DOGE_HOST", "DOGE_PORT", "DOGECOIN_ZMQ_PORT"}

\* C4: the database name created by the DatabaseStack equals the DATABASE_NAME
\* value handed to the Engine container, whatever databaseName option is set.
C4_DatabaseNamePropagates ==
    Built(engine) => Resolve(EngineEnv["DATABASE_NAME"]) = db.rdsInstance.databaseName

\* C5: every overridable option takes the supplied value when supplied and the
\* documented default when omitted: database name 'fractal', DATABASE_PORT 5432,
\* node ports 22555 / 22556 / 28000, DOGE_PORT 22555, DOGECOIN_ZMQ_PORT 28000,
\* service name 'dogecoin', namespace name 'fractal.local'.
C5_SuppliedOrDefault ==
    /\ Built(db) =>
          db.rdsInstance.databaseName = Expected(cfg.db.databaseName, "fractal")
    /\ Built(doge) =>
          /\ doge.container.portMappings =
                { Expected(cfg.doge.rpcPort, Num(22555)),
                  Expected(cfg.doge.p2pPort, Num(22556)),
                  Expected(cfg.doge.zmqPort, Num(28000)) }
          /\ doge.service.cloudMapOptions.name = Expected(cfg.doge.serviceName, "dogecoin")
          /\ doge.service.cloudMapOptions.cloudMapNamespace.name =
                Expected(cfg.doge.namespaceName, "fractal.local")
    /\ Built(engine) =>
          /\ Resolve(EngineEnv["DATABASE_NAME"]) = Expected(cfg.engine.databaseName, "fractal")
          /\ Resolve(EngineEnv["DATABASE_PORT"]) =
                PortText(Expected(EngineProps.dbPort, Num(5432)))
          /\ DogeKeys \subseteq DOMAIN EngineEnv =>
                /\ Resolve(EngineEnv["DOGE_PORT"]) =
                      PortText(Expected(EngineProps.dogecoin[1].rpcPort, Num(22555)))
                /\ Resolve(EngineEnv["DOGECOIN_ZMQ_PORT"]) =
                      PortText(Expected(EngineProps.dogecoin[1].zmqPort, Num(28000)))

\* C6 as claimed: the Engine's plain environment always holds the six base
\* keys; DOGE_HOST, DOGE_PORT and DOGECOIN_ZMQ_PORT are all present exactly when
\* a dogecoin connection is supplied and all absent otherwise; the database
\* user name and password are references to the database secret only.
C6_EnvironmentAsClaimed ==
    Built(engine) =>
        /\ BaseKeys \subseteq DOMAIN EngineEnv
        /\ DOMAIN EngineEnv \subseteq BaseKeys \cup DogeKeys
        /\ IF EngineProps.dogecoin # Omitted
           THEN DogeKeys \subseteq DOMAIN EngineEnv
           ELSE DogeKeys \cap DOMAIN EngineEnv = {}
        /\ DOMAIN engine.container.secrets = {"DATABASE_USERNAME", "DATABASE_PASSWORD"}
        /\ \A k \in DOMAIN engine.container.secrets :
              engine.container.secrets[k].secret = EngineProps.dbSecret

\* C6 as amended: as above, but the three dogecoin keys are present exactly
\* when a dogecoin connection with a non-empty host is supplied.
C6_Environment ==
    Built(engine) =>
        /\ BaseKeys \subseteq DOMAIN EngineEnv
        /\ DOMAIN EngineEnv \subseteq BaseKeys \cup DogeKeys
        /\ IF EngineProps.dogecoin # Omitted /\ EngineProps.dogecoin[1].host # Str("")
           THEN DogeKeys \subseteq DOMAIN EngineEnv
           ELSE DogeKeys \cap DOMAIN EngineEnv = {}
        /\ DOMAIN engine.container.secrets = {"DATABASE_USERNAME", "DATABASE_PASSWORD"}
        /\ \A k \in DOMAIN engine.container.secrets :
              engine.container.secrets[k].secret = EngineProps.dbSecret

C6_Witness ==
    /\ Built(engine)
    /\ EngineProps.dogecoin # Omitted
    /\ EngineProps.dogecoin[1].host = Str("")
    /\ DOMAIN EngineEnv = BaseKeys

\* C7: with the port options left at their defaults, the Dogecoin container
\* exposes exactly 22555, 22556 and 28000, and the Dogecoin security group
\* admits each of them from the Engine security group and from no other source.
C7_NodePortsFromEngineOnly ==
    (Built(doge) /\ cfg.doge.rpcPort = Omitted /\ cfg.doge.p2pPort = Omitted
                 /\ cfg.doge.zmqPort = Omitted) =>
        /\ {p.n : p \in doge.container.portMappings} = {22555, 22556, 28000}
        /\ \A p \in doge.container.portMappings : ~p.token
        /\ \A p \in doge.container.portMappings : \A sg \in doge.service.securityGroups :
              /\ [group |-> sg.id, peer |-> "EngineSg", port |-> p.n] \in ingress
              /\ \A r \in ingress :
                    r.group = sg.id /\ r.port = p.n => r.peer = "EngineSg"

C7_Witness ==
    /\ cfg = AppAsWritten
    /\ pc = "synthesized"
    /\ doge.service.securityGroups = {network.dogeSg}

\* C8: the service discovery hostname the DogecoinStack exposes is the name
\* that resolves to the service, '<service name>.<name of the namespace it is
\* registered in>', for every serviceName and namespaceName; with both omitted
\* it is 'dogecoin.fractal.local'.
C8_HostnameResolves ==
    Built(doge) =>
        /\ doge.serviceDiscoveryName = Str(ResolvableName(doge))
        /\ (cfg.doge.serviceName = Omitted /\ cfg.doge.namespaceName = Omitted)
              => doge.serviceDiscoveryName = Str("dogecoin.fractal.local")

\* C9: in the composed app the Engine is wired to what the other stacks made:
\* DOGE_HOST is the DogecoinStack's discovery hostname, DOGE_PORT and
\* DOGECOIN_ZMQ_PORT are the RPC and ZMQ ports the node container exposes,
\* DATABASE_HOST and DATABASE_PORT are the database endpoint's host and port,
\* and the secret behind the user name and password is the one the
\* DatabaseStack generated, readable by the Engine task role.
C9_EngineWiredToCreatedResources ==
    (Built(engine) /\ cfg.engine.dbPortFrom = "DatabaseStack"
                   /\ cfg.engine.dogecoinFrom = "DogecoinStack") =>
        /\ EngineEnv["DOGE_HOST"] = doge.serviceDiscoveryName
        /\ Resolve(EngineEnv["DOGE_PORT"]) = PortText(doge.rpcPort)
        /\ Resolve(EngineEnv["DOGECOIN_ZMQ_PORT"]) = PortText(doge.zmqPort)
        /\ {doge.rpcPort, doge.zmqPort} \subseteq doge.container.portMappings
        /\ Resolve(EngineEnv["DATABASE_HOST"]) =
              EndpointAttribute(db.rdsInstance.instanceEndpoint.hostname.attr)
        /\ \A k \in DOMAIN engine.container.secrets :
              engine.container.secrets[k].secret = db.rdsInstance.secret
        /\ db.rdsInstance.secret \in engine.taskRole.secretsReadable
        /\ Resolve(EngineEnv["DATABASE_PORT"]) =
              EndpointAttribute(db.rdsInstance.instanceEndpoint.port.attr)

\* C11: the public entry path is consistent end to end: one HTTP listener on
\* port 80, which the ALB group admits from any IPv4 address, forwarding to a
\* target group on port 8891 with health check /health, code 200, interval 30 s
\* and deregistration delay 10 s; 8891 is the target-group port, a mapped
\* container port, the value of RPC_SERVER_PORT and the port the Engine group
\* admits from the ALB group; the container maps exactly 8891 and 8086.
C11_PublicEntryPath ==
    Built(engine) =>
        /\ engine.httpListener.port = 80
        /\ [group |-> engine.loadBalancer.securityGroup.id, peer |-> AnyIpv4,
            port |-> engine.httpListener.port] \in ingress
        /\ engine.httpListener.targetGroups = {engine.tg.id}
        /\ engine.tg.targets = {"FractalService"}
        /\ engine.tg.port = 8891
        /\ engine.tg.healthCheck =
              [path |-> "/health", healthyHttpCodes |-> "200", intervalSeconds |-> 30]
        /\ engine.tg.deregistrationDelaySeconds = 10
        /\ Range(engine.container.portMappings) = {8891, 8086}
        /\ engine.tg.port \in Range(engine.container.portMappings)
        /\ Resolve(EngineEnv["RPC_SERVER_PORT"]) = Decimal(engine.tg.port)
        /\ \A sg \in engine.service.securityGroups :
              /\ [group |-> sg.id, peer |-> engine.loadBalancer.securityGroup.id,
                  port |-> engine.tg.port] \in ingress
              /\ \A r \in ingress :
                    (r.group = sg.id /\ r.peer = engine.loadBalancer.securityGroup.id)
                        => r.port = engine.tg.port

C11_Witness ==
    /\ "EngineStack" \in deployed
    /\ engine.service.securityGroups = {network.engineSg}
    /\ engine.loadBalancer.securityGroup = network.albSg

DogeEnv == doge.container.environment

\* C12: the Dogecoin container's DATADIR is '/data' for every value of the
\* environment option, also one that has a DATADIR key of its own; every other
\* key of the option is passed through unchanged; and the persistent volume is
\* mounted read-write at the path DATADIR names.
C12_DataDir ==
    Built(doge) =>
        /\ DogeEnv["DATADIR"] = "/data"
        /\ DOMAIN DogeEnv = {"DATADIR"} \cup DOMAIN Spread(cfg.doge.environment)
        /\ \A k \in DOMAIN Spread(cfg.doge.environment) \ {"DATADIR"} :
              DogeEnv[k] = Spread(cfg.doge.environment)[k]
        /\ \E m \in doge.container.mountPoints :
              /\ m.containerPath = DogeEnv["DATADIR"]
              /\ m.sourceVolume = "dogecoin-data"
              /\ ~m.readOnly

C12_Witness ==
    /\ Built(doge)
    /\ cfg.doge.environment # Omitted
    /\ {"DATADIR", "CHAIN"} \subseteq DOMAIN cfg.doge.environment[1]
    /\ cfg.doge.environment[1]["DATADIR"] # "/data"
    /\ DogeEnv["CHAIN"] = "testnet"

\* C13: each subnet-selection option decides where the resources go, with a
\* default per tier: the Dogecoin service and its file system use
\* subnetSelection (default PRIVATE_WITH_EGRESS), the Engine service
\* appSubnetSelection (default PRIVATE_WITH_EGRESS), the load balancer
\* albSubnetSelection (default PUBLIC), the database dbSubnetSelection (default
\* PRIVATE_ISOLATED); a supplied selection is the one used.
C13_SubnetSelections ==
    /\ Built(doge) =>
          /\ doge.service.vpcSubnets =
                Expected(cfg.doge.subnetSelection, "PRIVATE_WITH_EGRESS")
          /\ doge.efs.vpcSubnets =
                Expected(cfg.doge.subnetSelection, "PRIVATE_WITH_EGRESS")
    /\ Built(engine) =>
          /\ engine.service.vpcSubnets =
                Expected(cfg.engine.appSubnetSelection, "PRIVATE_WITH_EGRESS")
          /\ engine.loadBalancer.vpcSubnets =
                Expected(cfg.engine.albSubnetSelection, "PUBLIC")
    /\ Built(db) =>
          db.rdsInstance.vpcSubnets =
              Expected(cfg.db.dbSubnetSelection, "PRIVATE_ISOLATED")

\* C14 as claimed: for every rpcPort, p2pPort and zmqPort, each port the
\* Dogecoin container exposes is admitted by the Dogecoin security group from
\* the Engine security group, so the Engine reaches the node on the DOGE_PORT
\* and DOGECOIN_ZMQ_PORT it is handed.
C14_ExposedPortsAdmitted ==
    Built(doge) =>
        \A p \in doge.container.portMappings : \A sg \in doge.service.securityGroups :
            [group |-> sg.id, peer |-> network.engineSg.id, port |-> p.n] \in ingress

RECURSIVE DependenciesWithin(_, _)
DependenciesWithin(S, n) ==
    IF n = 0 THEN S
    ELSE DependenciesWithin(S \cup UNION {StackDependencies(t) : t \in S}, n - 1)

\* every stack a stack waits for, directly or through others
AllDependencies(s) == DependenciesWithin(StackDependencies(s), Cardinality(Stacks))

Acyclic == \A s \in Stacks : s \notin AllDependencies(s)

\* C15: the dependency relation over the four stacks is acyclic, a stack is
\* deployed at most once and never withdrawn, and a deployment that keeps
\* applying ready stacks ends with all four deployed.
C15_AllDeployedOnce ==
    /\ [](pc = "synthesized" => Acyclic)
    /\ [][deployed \subseteq deployed' /\ Cardinality(deployed' \ deployed) <= 1]_vars
    /\ <>[](deployed = Stacks)

C15_Witness ==
    /\ pc = "synthesized"
    /\ Acyclic
    /\ AllDependencies("EngineStack") = Stacks \ {"EngineStack"}
    /\ deployed = Stacks

====
